---- MODULE Spec2Model ----
(***************************************************************************)
(* A model of tte-screensaver: the effect scheduler (src/src/effects.py),  *)
(* the per-monitor binding and the run loop (src/src/screensaver.py) and   *)
(* the escape interpreter (src/src/renderer.py).                           *)
(*                                                                         *)
(* Specifications:                                                         *)
(*   SpecSched  one MonitorEffect whose update_and_render is called again  *)
(*              and again, over every configured list of effect names;     *)
(*   Spec       the render loop of Screensaver.run (lines 253-268) over    *)
(*              the monitor bindings;                                      *)
(*   SpecRun    Screensaver.run from its first line, as written;           *)
(*   SpecFail   the try statement of Screensaver.run, with the exceptions  *)
(*              its statements raise;                                      *)
(*   SpecParse  ANSIRenderer.parse_ansi_frame_sparse, one loop iteration   *)
(*              per step, over bounded frames;                             *)
(*   SpecColor  one call of ANSIRenderer._parse_color_codes;               *)
(*   SpecDelta  calls of ANSIRenderer.render_frame_delta, each given the   *)
(*              dict the call before returned;                             *)
(*   SpecCache  calls of get_char_surface and clear_cache.                 *)
(***************************************************************************)
EXTENDS Integers, Sequences, FiniteSets, Bags, TLC

VARIABLES
    config,             \* Config.enabled_effects, the configured name list
    monitor_effects,    \* Screensaver.monitor_effects: one EffectManager each
    calls,              \* per monitor: the calls of its update_and_render in this tick
    running,            \* Screensaver.running
    initial_mouse_pos,  \* Screensaver.initial_mouse_pos
    events,             \* the list pygame.event.get() returned to _handle_events
    pc,                 \* position of the render loop
    cur,                \* index of the for loop over monitor_effects
    updated,            \* per monitor: update_and_render calls in this tick
    presented,          \* pygame.display.flip calls in this tick
    fullscreen,         \* the argument of Screensaver.run
    num_monitors,       \* len(monitors) in run
    randints,           \* what random.randint(0, 5) returns for each monitor
    raised,             \* the exception run is propagating, or None
    reported,           \* run printed "Screensaver error"
    quit_calls,         \* calls of pygame.quit
    frame_str,          \* parse_ansi_frame_sparse: its frame, a list of characters
    canvas,             \* <<canvas_width, canvas_height>>
    parse,              \* its locals: i, cursor_row, cursor_col, current_color, cells
    sgr_codes,          \* _parse_color_codes: its codes, a list of strings
    sgr_current,        \* its current_color
    sgr_result,         \* what it returned
    delta_frame,        \* render_frame_delta: its frame
    prev_cells,         \* its prev_cells, a dict (row, col) -> (char, color)
    curr_cells,         \* what it returned
    clear_list,         \* the blits of its clear_list
    draw_list,          \* the blits of its draw_list
    surface,            \* its surface: per cell origin, what was blitted there
    _char_cache,        \* ANSIRenderer._char_cache: (char, color) -> surface
    rasterized,         \* per key: the calls of font.render so far
    clears,             \* the calls of clear_cache so far
    cache_call          \* the last direct call of get_char_surface or clear_cache

schedVars == <<config, monitor_effects, calls>>
loopVars == <<running, initial_mouse_pos, events, pc, cur, updated, presented>>
runVars == <<fullscreen, num_monitors, randints, raised, reported, quit_calls>>
parseVars == <<frame_str, canvas, parse>>
colorVars == <<sgr_codes, sgr_current, sgr_result>>
deltaVars ==
    <<delta_frame, prev_cells, curr_cells, clear_list, draw_list, surface>>
cacheVars == <<_char_cache, rasterized, clears, cache_call>>
rendererVars == <<colorVars, deltaVars, cacheVars>>
vars == <<schedVars, loopVars, runVars, parseVars, rendererVars>>

-----------------------------------------------------------------------------
(* Bounds of the model.                                                    *)

\* longest configured list of effect names
MaxEnabled == 3
\* most frames one effect session yields
MaxFrames == 2
\* most monitors
MaxMonitors == 2
\* most events one pygame.event.get() returns
MaxEvents == 2
\* most tokens (escape sequences, characters) of a frame
MaxTokens == 3
\* most entries of a list of color codes built from CodeStrings
MaxCodes == 3
\* most cells of a frame that is rendered as a delta
MaxCols == 2
\* most calls of clear_cache
MaxClears == 2
\* the size of a character cell in pixels (font.size("M"))
CharWidth == 2
CharHeight == 3
\* the canvas the frames are parsed for
CanvasWidth == 4
CanvasHeight == 2

-----------------------------------------------------------------------------
(* effects.py                                                              *)

None == "None"

AVAILABLE_EFFECTS ==
    {"Beams", "BinaryPath", "Blackhole", "BouncyBalls", "Bubbles", "Burn",
     "ColorShift", "Crumble", "Decrypt", "ErrorCorrect", "Expand",
     "Fireworks", "Highlight", "LaserEtch", "Matrix", "MiddleOut",
     "OrbittingVolley", "Overflow", "Pour", "Print", "Rain",
     "RandomSequence", "Rings", "Scattered", "Slice", "Slide", "Spotlights",
     "Spray", "Swarm", "Sweep", "SynthGrid", "Unstable", "VHSTape", "Waves",
     "Wipe"}

\* The names a configuration file is drawn from: two catalog names and one
\* name the catalog does not know.
ConfigNames == {"Matrix", "Rain", "Bogus"}

SeqsUpTo(S, n) == UNION {[1..k -> S] : k \in 0..n}

ConfigLists == SeqsUpTo(ConfigNames, MaxEnabled)

\* the texts an effect iterator yields as one frame ("" is a falsy frame)
FrameTexts == {"F", ""}

\* EffectState(): current_effect_index = 0, current_iterator = None,
\* effect_completed = False.  An iterator is the number of frames it has
\* left to yield; live is FALSE for None.
NoIterator == [live |-> FALSE, remaining |-> 0]

EffectState ==
    [current_effect_index |-> 0,
     current_iterator |-> NoIterator,
     effect_completed |-> FALSE]

\* a list comprehension that keeps every configured name
ValidEffects_NoFilter(enabled) == enabled

\* the list comprehension of __init__: the configured names the catalog knows
ValidEffects(enabled) == SelectSeq(enabled, LAMBDA name : name \in AVAILABLE_EFFECTS)

FallbackEffects == <<"Matrix", "Rain", "Decrypt">>

\* enabled_effects before the shuffle
EnabledEffects(enabled) ==
    IF ValidEffects(enabled) = <<>> THEN FallbackEffects ELSE ValidEffects(enabled)

\* random.shuffle: any order of the same entries
Shuffles(s) ==
    {[j \in 1..Len(s) |-> s[p[j]]] : p \in Permutations(1..Len(s))}

\* _create_effect: a new iterator of n frames for the effect at the current
\* index (which line 138 reads from the list); effect_completed = False.
_create_effect(em, n) ==
    [em EXCEPT !.current_iterator = [live |-> TRUE, remaining |-> n],
               !.effect_completed = FALSE]

\* EffectManager.__init__ with the shuffled list and the first session's length
EffectManager(shuffled, n) ==
    _create_effect([enabled_effects |-> shuffled] @@ EffectState, n)

get_current_effect_name(em) == em.enabled_effects[em.current_effect_index + 1]

should_switch_effect(em) == em.effect_completed

\* the candidates of random.choice in switch_to_next_effect
SwitchChoices(em) ==
    {j \in 0..(Len(em.enabled_effects) - 1) : j # em.current_effect_index}

\* switch_to_next_effect, with the index random.choice picks and the new
\* session's length
switch_to_next_effect(em, choice, n) ==
    _create_effect(
        IF Len(em.enabled_effects) > 1
        THEN [em EXCEPT !.current_effect_index = choice]
        ELSE em,
        n)

\* get_next_frame restarting an exhausted session in place
get_next_frame_Restart(em, n, text) ==
    IF em.current_iterator.remaining > 0
    THEN [em |-> [em EXCEPT !.current_iterator.remaining = @ - 1], frame |-> text]
    ELSE IF em.effect_completed
         THEN [em |-> [em EXCEPT !.current_iterator.remaining = n,
                                 !.effect_completed = FALSE],
               frame |-> text]
         ELSE [em |-> [em EXCEPT !.effect_completed = TRUE], frame |-> None]

\* get_next_frame: next(iterator) yields a frame text while frames are left
\* and raises StopIteration from then on; n is the length of the session
\* line 189 would create
get_next_frame(em, n, text) ==
    LET em1 == IF em.current_iterator = NoIterator
               THEN _create_effect(em, n) ELSE em
    IN  IF em1.current_iterator.remaining > 0
        THEN [em |-> [em1 EXCEPT !.current_iterator.remaining = @ - 1],
              frame |-> text]
        ELSE [em |-> [em1 EXCEPT !.effect_completed = TRUE], frame |-> None]

-----------------------------------------------------------------------------
(* screensaver.py: MonitorEffect                                           *)

\* "if frame is None" (line 128)
NeedsSwitch_Always(frame) == TRUE

NeedsSwitch(frame) == frame = None

\* "if frame:" (line 134)
Truthy(frame) == frame # None /\ frame # ""

\* the index random.choice returns in a switch; it is not called for a list
\* of one entry
ChoiceSet(em) ==
    IF Len(em.enabled_effects) > 1 THEN SwitchChoices(em)
    ELSE {em.current_effect_index}

\* One entry of a monitor's call log: the call, whether effect_completed
\* was set when it began, and what it returned.
Call(op, before, result) ==
    [op |-> op, completed_before |-> before.effect_completed, result |-> result]

GetCall(before, r) ==
    Call("get_next_frame", before, IF r.frame = None THEN "None" ELSE "frame")

\* MonitorEffect.update_and_render: the manager afterwards, the frame handed
\* to the renderer (if any) and the calls made, in order
update_and_render(em, choice, n, text1, text2) ==
    LET r1 == get_next_frame(em, n, text1)
        sw == NeedsSwitch(r1.frame)
        em2 == switch_to_next_effect(r1.em, choice, n)
        r2 == IF sw THEN get_next_frame(em2, n, text2) ELSE r1
        log1 == <<GetCall(em, r1)>>
        log2 == IF sw
                THEN <<Call("switch_to_next_effect", r1.em, ""),
                       Call("_create_effect", r1.em, ""),
                       GetCall(em2, r2)>>
                ELSE <<>>
        log3 == IF Truthy(r2.frame)
                THEN <<Call("render_frame", r2.em, "")>> ELSE <<>>
    IN  [em |-> r2.em, frame |-> r2.frame, log |-> log1 \o log2 \o log3]

\* one call of update_and_render on monitor k, with what the catalog and the
\* random generator supply
UpdateAndRender(k) ==
    \E n \in 0..MaxFrames, text1 \in FrameTexts, text2 \in FrameTexts :
      \E choice \in ChoiceSet(monitor_effects[k]) :
        LET r == update_and_render(monitor_effects[k], choice, n, text1, text2)
        IN  /\ monitor_effects' = [monitor_effects EXCEPT ![k] = r.em]
            /\ calls' = [calls EXCEPT ![k] = r.log]

\* the managers of m monitors built from one configuration: each shuffles
\* for itself and starts its own first session
ManagerLists(enabled, m) ==
    [1..m -> {EffectManager(sh, n) :
                 sh \in Shuffles(EnabledEffects(enabled)), n \in 0..MaxFrames}]

NoPos == <<>>

LoopIdle ==
    /\ running = FALSE
    /\ initial_mouse_pos = NoPos
    /\ events = <<>>
    /\ pc = "idle"
    /\ cur = 0
    /\ updated = <<>>
    /\ presented = 0

\* renderer.py line 49
default_fg_color == <<255, 255, 255>>

\* renderer.py lines 102-107: the locals of parse_ansi_frame_sparse before its loop
ParseStart ==
    [i |-> 0, cursor_row |-> 0, cursor_col |-> 0,
     current_color |-> default_fg_color, cells |-> <<>>]

\* no frame is being parsed
ParseIdle ==
    /\ frame_str = <<>>
    /\ canvas = <<0, 0>>
    /\ parse = ParseStart

\* no result of a call
NoResult == <<>>

\* _parse_color_codes has not been called
ColorIdle ==
    /\ sgr_codes = <<>>
    /\ sgr_current = default_fg_color
    /\ sgr_result = NoResult

\* a dict without entries
EmptyDict == <<>>

\* the characters and colors of the glyphs that are drawn
GlyphChars == {"X", "Y"}
GlyphColors == {<<170, 0, 0>>, <<0, 0, 170>>}
GlyphKeys == GlyphChars \X GlyphColors

NoCall == [op |-> "none"]

\* line 57: the cache is empty and nothing has been rasterized
CacheStart ==
    /\ _char_cache = EmptyDict
    /\ rasterized = [key \in GlyphKeys |-> 0]
    /\ clears = 0
    /\ cache_call = NoCall

\* A surface filled with the background color.  A surface is a dict from the
\* pixel where a cell begins to the glyph surfaces blitted there since the
\* background tile was last blitted there (a glyph is drawn over what is
\* there already); a cell that shows the background alone has no entry.
BlankSurface == EmptyDict

\* render_frame_delta has not been called
DeltaIdle ==
    /\ delta_frame = <<>>
    /\ prev_cells = EmptyDict
    /\ curr_cells = EmptyDict
    /\ clear_list = EmptyBag
    /\ draw_list = EmptyBag
    /\ surface = BlankSurface

\* none of the renderer's other methods has been called
RendererIdle == ColorIdle /\ DeltaIdle /\ CacheStart

\* run has not been entered (or has come as far as line 253 without error)
RunQuiet ==
    /\ ParseIdle
    /\ RendererIdle
    /\ fullscreen = TRUE
    /\ num_monitors = Len(monitor_effects)
    /\ randints = <<>>
    /\ raised = None
    /\ reported = FALSE
    /\ quit_calls = 0

InitSched ==
    /\ config \in ConfigLists
    /\ monitor_effects \in ManagerLists(config, 1)
    /\ calls = [k \in 1..Len(monitor_effects) |-> <<>>]
    /\ LoopIdle
    /\ RunQuiet

NextSched ==
    \E k \in 1..Len(monitor_effects) :
        UpdateAndRender(k) /\ UNCHANGED <<config, loopVars, runVars, parseVars, rendererVars>>

SpecSched == InitSched /\ [][NextSched]_vars

-----------------------------------------------------------------------------
(* screensaver.py: Screensaver._handle_events and the loop of run          *)

mouse_move_threshold == 10

\* Mouse positions pygame.mouse.get_pos() reports: the origin, one exactly
\* the threshold away in x and y, one beyond it in x only, one in y only.
Positions ==
    {<<0, 0>>, <<mouse_move_threshold, mouse_move_threshold>>,
     <<mouse_move_threshold + 1, 0>>, <<0, mouse_move_threshold + 1>>}

\* An event of the queue.  pos is what pygame.mouse.get_pos() returns while
\* a MOUSEMOTION event is handled; OTHER is any type the handler ignores.
EventValues ==
    {[type |-> t, pos |-> <<0, 0>>] :
        t \in {"QUIT", "KEYDOWN", "MOUSEBUTTONDOWN", "OTHER"}}
    \cup {[type |-> "MOUSEMOTION", pos |-> p] : p \in Positions}

EventLists == SeqsUpTo(EventValues, MaxEvents)

Abs(x) == IF x < 0 THEN -x ELSE x

\* lines 209-211 with the comparison relaxed to "at least the threshold"
MovedTooFar_AtLeast(current_pos, initial) ==
    \/ Abs(current_pos[1] - initial[1]) >= mouse_move_threshold
    \/ Abs(current_pos[2] - initial[2]) >= mouse_move_threshold

\* lines 209-211: dx > threshold or dy > threshold
MovedTooFar(current_pos, initial) ==
    \/ Abs(current_pos[1] - initial[1]) > mouse_move_threshold
    \/ Abs(current_pos[2] - initial[2]) > mouse_move_threshold

\* _handle_events over the list pygame.event.get() returned: what it returns
\* and initial_mouse_pos afterwards
RECURSIVE _handle_events(_, _)
_handle_events(evs, initial) ==
    IF evs = <<>> THEN [ok |-> TRUE, initial_mouse_pos |-> initial]
    ELSE LET event == Head(evs)
         IN  IF event.type \in {"QUIT", "KEYDOWN", "MOUSEBUTTONDOWN"}
             THEN [ok |-> FALSE, initial_mouse_pos |-> initial]
             ELSE IF event.type = "MOUSEMOTION"
             THEN IF initial = NoPos
                  THEN _handle_events(Tail(evs), event.pos)
                  ELSE IF MovedTooFar(event.pos, initial)
                       THEN [ok |-> FALSE, initial_mouse_pos |-> initial]
                       ELSE _handle_events(Tail(evs), initial)
             ELSE _handle_events(Tail(evs), initial)

\* the for loop over monitor_effects after the binding at index k: the next
\* binding, or the flip once the list is exhausted -- here leaving the loop
\* one binding early
AfterMonitor_SkipLast(k, count) ==
    IF k + 1 >= count THEN [pc |-> "flip", cur |-> 0]
    ELSE [pc |-> "render", cur |-> k + 1]

\* the for loop over monitor_effects after the binding at index k
AfterMonitor(k, count) ==
    IF k = count THEN [pc |-> "flip", cur |-> 0]
    ELSE [pc |-> "render", cur |-> k + 1]

\* lines 256-258: the events of this tick are handled; a False result clears
\* running and breaks out of the loop
HandleEvents ==
    /\ pc = "events"
    /\ running
    /\ \E evs \in EventLists :
         LET r == _handle_events(evs, initial_mouse_pos)
         IN  /\ events' = evs
             /\ initial_mouse_pos' = r.initial_mouse_pos
             /\ running' = r.ok
             /\ pc' = IF r.ok THEN "fill" ELSE "exit"
    /\ cur' = 0
    /\ updated' = [k \in 1..Len(monitor_effects) |-> 0]
    /\ presented' = 0
    /\ calls' = [k \in 1..Len(monitor_effects) |-> <<>>]
    /\ UNCHANGED <<config, monitor_effects, runVars, parseVars, rendererVars>>

\* line 261: screen.fill; the for loop begins at the first binding
ClearScreen ==
    /\ pc = "fill"
    /\ pc' = "render"
    /\ cur' = 1
    /\ events' = <<>>
    /\ UNCHANGED <<running, initial_mouse_pos, updated, presented, schedVars,
                   runVars, parseVars, rendererVars>>

\* lines 264-265: update_and_render of the binding the for loop is at
RenderMonitor ==
    /\ pc = "render"
    /\ UpdateAndRender(cur)
    /\ updated' = [updated EXCEPT ![cur] = @ + 1]
    /\ pc' = AfterMonitor(cur, Len(monitor_effects)).pc
    /\ cur' = AfterMonitor(cur, Len(monitor_effects)).cur
    /\ UNCHANGED <<config, running, initial_mouse_pos, events, presented,
                   runVars, parseVars, rendererVars>>

\* line 267: pygame.display.flip
Flip ==
    /\ pc = "flip"
    /\ presented' = presented + 1
    /\ pc' = "tick"
    /\ UNCHANGED <<running, initial_mouse_pos, events, cur, updated, schedVars,
                   runVars, parseVars, rendererVars>>

\* line 268 and the loop test of line 255
ClockTick ==
    /\ pc = "tick"
    /\ pc' = IF running THEN "events" ELSE "exit"
    /\ UNCHANGED <<running, initial_mouse_pos, events, cur, updated, presented,
                   schedVars, runVars, parseVars, rendererVars>>

\* lines 273-274: the finally clause, on the way out of run
Finally ==
    /\ pc \in {"exit", "finally"}
    /\ quit_calls' = quit_calls + 1
    /\ pc' = IF raised = None THEN "returned" ELSE "raised"
    /\ UNCHANGED <<running, initial_mouse_pos, events, cur, updated, presented,
                   schedVars, fullscreen, num_monitors, randints, raised,
                   reported, parseVars, rendererVars>>

\* The loop is entered with running = True (line 253) over the bindings of
\* one to MaxMonitors monitors; every binding plays the one configured effect.
LoopConfigs == {<<"Matrix">>}

Init ==
    /\ config \in LoopConfigs
    /\ \E m \in 1..MaxMonitors : monitor_effects \in ManagerLists(config, m)
    /\ calls = [k \in 1..Len(monitor_effects) |-> <<>>]
    /\ running = TRUE
    /\ initial_mouse_pos = NoPos
    /\ events = <<>>
    /\ pc = "events"
    /\ cur = 0
    /\ updated = [k \in 1..Len(monitor_effects) |-> 0]
    /\ presented = 0
    /\ RunQuiet

Next ==
    HandleEvents \/ ClearScreen \/ RenderMonitor \/ Flip \/ ClockTick \/ Finally

Spec == Init /\ [][Next]_vars

-----------------------------------------------------------------------------
(* screensaver.py: Screensaver.run from its first line                     *)

\* the parameters of EffectManager.__init__ besides self
EffectManagerParams == {"text", "enabled_effects", "canvas_width", "canvas_height"}

\* the keyword arguments MonitorEffect.__init__ passes to EffectManager
EffectManagerKeywords ==
    {"text", "enabled_effects", "canvas_width", "canvas_height", "start_index"}

\* MonitorEffect(...): a call with a keyword the callee does not declare
\* raises TypeError before the callee's body runs
MonitorEffect(enabled, start_index, shuffled, n) ==
    IF EffectManagerKeywords \subseteq EffectManagerParams
    THEN [ok |-> TRUE, effect_manager |-> EffectManager(shuffled, n),
          start_index |-> start_index]
    ELSE [ok |-> FALSE, error |-> "TypeError"]

\* line 248: the start index run computes for monitor i (from 0) of count
StartIndex(enabled, i, count, randint) ==
    ((i * Len(enabled)) \div count) + randint

\* lines 219-240: _init_pygame, the renderer, and the list of monitors:
\* get_monitors() in fullscreen mode, else one window
RunInit ==
    /\ pc = "start"
    /\ \E m \in 1..MaxMonitors :
         /\ fullscreen \/ m = 1
         /\ num_monitors' = m
    /\ pc' = "create"
    /\ UNCHANGED <<schedVars, running, initial_mouse_pos, events, cur, updated,
                   presented, fullscreen, randints, raised, reported,
                   quit_calls, parseVars, rendererVars>>

\* lines 244-253: the list comprehension builds the bindings in order and
\* stops at the first constructor that raises; only a complete list is
\* assigned to monitor_effects, and only then is running set
RunCreateMonitorEffects ==
    /\ pc = "create"
    /\ \E shs \in [1..num_monitors -> Shuffles(EnabledEffects(config))] :
       \E ns \in [1..num_monitors -> 0..MaxFrames] :
         LET built == [k \in 1..num_monitors |->
                         MonitorEffect(config,
                                       StartIndex(config, k - 1, num_monitors,
                                                  randints[k]),
                                       shs[k], ns[k])]
             failed == {k \in 1..num_monitors : ~built[k].ok}
         IN  IF failed = {}
             THEN /\ monitor_effects' =
                       [k \in 1..num_monitors |-> built[k].effect_manager]
                  /\ running' = TRUE
                  /\ raised' = None
                  /\ pc' = "events"
             ELSE /\ monitor_effects' = monitor_effects
                  /\ running' = running
                  /\ raised' = built[CHOOSE k \in failed :
                                        \A h \in failed : k <= h].error
                  /\ pc' = "except"
    /\ calls' = [k \in 1..Len(monitor_effects') |-> <<>>]
    /\ updated' = [k \in 1..Len(monitor_effects') |-> 0]
    /\ UNCHANGED <<config, initial_mouse_pos, events, cur, presented, fullscreen,
                   num_monitors, randints, reported, quit_calls, parseVars, rendererVars>>

\* lines 270-272: the error is printed and raised again
RunExcept ==
    /\ pc = "except"
    /\ reported' = TRUE
    /\ pc' = "finally"
    /\ UNCHANGED <<schedVars, running, initial_mouse_pos, events, cur, updated,
                   presented, fullscreen, num_monitors, randints, raised,
                   quit_calls, parseVars, rendererVars>>

\* Screensaver(config).run(fullscreen), any configuration, with the values
\* the random generator will return
InitRun ==
    /\ config \in ConfigLists
    /\ monitor_effects = <<>>
    /\ calls = <<>>
    /\ running = FALSE
    /\ initial_mouse_pos = NoPos
    /\ events = <<>>
    /\ pc = "start"
    /\ cur = 0
    /\ updated = <<>>
    /\ presented = 0
    /\ fullscreen \in BOOLEAN
    /\ num_monitors = 0
    /\ randints \in [1..MaxMonitors -> 0..5]
    /\ raised = None
    /\ reported = FALSE
    /\ quit_calls = 0
    /\ ParseIdle
    /\ RendererIdle

NextRun == RunInit \/ RunCreateMonitorEffects \/ RunExcept \/ Finally

SpecRun == InitRun /\ [][NextRun]_vars

-----------------------------------------------------------------------------
(* screensaver.py: the try statement of Screensaver.run (lines 218-274)     *)

\* What a statement of the try block raises besides the TypeError of the
\* constructor: pygame.error from a display call, and KeyboardInterrupt,
\* which is no subclass of Exception.
Raisable == {"pygame.error", "KeyboardInterrupt"}

\* line 270 with a clause that matches no exception
except_Exception_Nothing(e) == FALSE

\* line 270: "except Exception" matches every exception but those that derive
\* from BaseException alone
except_Exception(e) ==
    e \notin {"KeyboardInterrupt", "SystemExit", "GeneratorExit"}

\* the positions of run inside its try block (lines 219-268)
TryBlock == {"start", "create", "events", "fill", "render", "flip", "tick"}

\* A statement of the try block raises: the block is left at once for the
\* except clause if it matches, else for the finally clause.
Raise ==
    /\ pc \in TryBlock
    /\ raised = None
    /\ \E e \in Raisable :
         /\ raised' = e
         /\ pc' = IF except_Exception(e) THEN "except" ELSE "finally"
    /\ UNCHANGED <<schedVars, running, initial_mouse_pos, events, cur, updated,
                   presented, fullscreen, num_monitors, randints, reported,
                   quit_calls, parseVars, rendererVars>>

\* run is at its first line with the one configured effect, or has come as
\* far as its loop
InitFail ==
    \/ InitRun /\ config \in LoopConfigs
    \/ Init

NextFail ==
    \/ RunInit \/ RunCreateMonitorEffects
    \/ HandleEvents \/ ClearScreen \/ RenderMonitor \/ Flip \/ ClockTick
    \/ Raise \/ RunExcept \/ Finally

SpecFail == InitFail /\ [][NextFail]_vars

-----------------------------------------------------------------------------
(* renderer.py: the ANSI parser.  A frame is a list of characters; the      *)
(* escape character, line feed and carriage return are written ESC, LF, CR. *)

ESC == "ESC"
LF == "LF"
CR == "CR"

DigitSeq == <<"0", "1", "2", "3", "4", "5", "6", "7", "8", "9">>
DigitChars == {DigitSeq[d] : d \in 1..10}
DigitValue(c) == (CHOOSE d \in 1..10 : DigitSeq[d] = c) - 1

\* [A-Za-z]
Letters ==
    {"A", "B", "C", "D", "E", "F", "G", "H", "I", "J", "K", "L", "M", "N", "O",
     "P", "Q", "R", "S", "T", "U", "V", "W", "X", "Y", "Z", "a", "b", "c", "d",
     "e", "f", "g", "h", "i", "j", "k", "l", "m", "n", "o", "p", "q", "r", "s",
     "t", "u", "v", "w", "x", "y", "z"}

\* frame[j] with j counted from 0; past the end there is no character
At(f, j) == IF j >= 0 /\ j < Len(f) THEN f[j + 1] ELSE "END"

\* frame[a:b]
Slice(f, a, b) == SubSeq(f, a + 1, b)

\* the end of the longest run of characters of class starting at j: what a
\* greedy class* consumes when the character the pattern wants next is not in
\* the class
RECURSIVE RunEnd(_, _, _)
RunEnd(f, j, class) ==
    IF At(f, j) \in class THEN RunEnd(f, j + 1, class) ELSE j

NoMatch == [matched |-> FALSE]

\* ANSI_CURSOR_POS.match(frame, i): \x1b\[(\d+);(\d+)H
ANSI_CURSOR_POS(f, i) ==
    LET a == i + 2
        b == RunEnd(f, a, DigitChars)
        c == b + 1
        d == RunEnd(f, c, DigitChars)
    IN  IF /\ At(f, i) = ESC
           /\ At(f, i + 1) = "["
           /\ b > a
           /\ At(f, b) = ";"
           /\ d > c
           /\ At(f, d) = "H"
        THEN [matched |-> TRUE, group1 |-> Slice(f, a, b),
              group2 |-> Slice(f, c, d), end |-> d + 1]
        ELSE NoMatch

\* ANSI_ESCAPE.match(frame, i): \x1b\[([0-9;]*)m
ANSI_ESCAPE(f, i) ==
    LET a == i + 2
        b == RunEnd(f, a, DigitChars \cup {";"})
    IN  IF At(f, i) = ESC /\ At(f, i + 1) = "[" /\ At(f, b) = "m"
        THEN [matched |-> TRUE, group1 |-> Slice(f, a, b), end |-> b + 1]
        ELSE NoMatch

\* ANSI_ANY.match(frame, i): \x1b\[[0-9;]*[A-Za-z]
ANSI_ANY(f, i) ==
    LET a == i + 2
        b == RunEnd(f, a, DigitChars \cup {";"})
    IN  IF At(f, i) = ESC /\ At(f, i + 1) = "[" /\ At(f, b) \in Letters
        THEN [matched |-> TRUE, end |-> b + 1]
        ELSE NoMatch

\* int(s) raises ValueError unless s is a non-empty run of digits
IsInt(s) == Len(s) > 0 /\ \A k \in 1..Len(s) : s[k] \in DigitChars

RECURSIVE int(_)
int(s) ==
    IF Len(s) = 0 THEN 0
    ELSE 10 * int(SubSeq(s, 1, Len(s) - 1)) + DigitValue(s[Len(s)])

\* s.split(";")
RECURSIVE split(_)
split(s) ==
    IF \A k \in 1..Len(s) : s[k] # ";" THEN <<s>>
    ELSE LET k == CHOOSE k \in 1..Len(s) :
                      s[k] = ";" /\ \A j \in 1..(k - 1) : s[j] # ";"
         IN  <<SubSeq(s, 1, k - 1)>> \o split(SubSeq(s, k + 1, Len(s)))

\* lines 216-240
_basic_color(index, bright) ==
    LET colors == << <<0, 0, 0>>, <<170, 0, 0>>, <<0, 170, 0>>, <<170, 85, 0>>,
                     <<0, 0, 170>>, <<170, 0, 170>>, <<0, 170, 170>>,
                     <<170, 170, 170>> >>
        bright_colors == << <<85, 85, 85>>, <<255, 85, 85>>, <<85, 255, 85>>,
                            <<255, 255, 85>>, <<85, 85, 255>>, <<255, 85, 255>>,
                            <<85, 255, 255>>, <<255, 255, 255>> >>
    IN  IF bright
        THEN IF index < Len(bright_colors) THEN bright_colors[index + 1]
             ELSE default_fg_color
        ELSE IF index < Len(colors) THEN colors[index + 1]
             ELSE default_fg_color

\* a cube that is indexed by the color number itself
_xterm_to_rgb_CubeFrom0(color_num) ==
    IF color_num < 16 THEN _basic_color(color_num % 8, color_num >= 8)
    ELSE IF color_num < 232
    THEN <<((color_num \div 36) % 6) * 51, ((color_num \div 6) % 6) * 51,
           (color_num % 6) * 51>>
    ELSE <<(color_num - 232) * 10 + 8, (color_num - 232) * 10 + 8,
           (color_num - 232) * 10 + 8>>

\* lines 242-261
_xterm_to_rgb(color_num) ==
    IF color_num < 16 THEN _basic_color(color_num % 8, color_num >= 8)
    ELSE IF color_num < 232
    THEN LET n == color_num - 16
             r == (n \div 36) % 6
             g == (n \div 6) % 6
             b == n % 6
         IN  <<r * 51, g * 51, b * 51>>
    ELSE LET gray == (color_num - 232) * 10 + 8 IN <<gray, gray, gray>>

\* lines 165-214: the while loop of _parse_color_codes, from index i
RECURSIVE _parse_color_codes_from(_, _, _)
_parse_color_codes_from(codes, i, current_color) ==
    IF i >= Len(codes) THEN current_color
    ELSE IF ~IsInt(codes[i + 1])
    THEN _parse_color_codes_from(codes, i + 1, current_color)
    ELSE
    LET code == int(codes[i + 1])
        next == _parse_color_codes_from(codes, i + 1, current_color)
    IN  IF code = 0 THEN default_fg_color
        ELSE IF code = 38
        THEN IF i + 1 < Len(codes)
             THEN IF ~IsInt(codes[i + 2]) THEN next
                  ELSE
                  LET color_type == int(codes[i + 2])
                  IN  IF color_type = 2 /\ i + 4 < Len(codes)
                      THEN IF /\ IsInt(codes[i + 3])
                              /\ IsInt(codes[i + 4])
                              /\ IsInt(codes[i + 5])
                           THEN <<int(codes[i + 3]), int(codes[i + 4]),
                                  int(codes[i + 5])>>
                           ELSE _parse_color_codes_from(codes, i + 5,
                                                        current_color)
                      ELSE IF color_type = 5 /\ i + 2 < Len(codes)
                      THEN IF IsInt(codes[i + 3])
                           THEN _xterm_to_rgb(int(codes[i + 3]))
                           ELSE _parse_color_codes_from(codes, i + 3,
                                                        current_color)
                      ELSE next
             ELSE next
        ELSE IF 30 <= code /\ code <= 37 THEN _basic_color(code - 30, FALSE)
        ELSE IF 90 <= code /\ code <= 97 THEN _basic_color(code - 90, TRUE)
        ELSE next

\* a resolver without the test of line 162
_parse_color_codes_NoEmptyCase(codes, current_color) ==
    _parse_color_codes_from(codes, 0, current_color)

\* lines 158-214
_parse_color_codes(codes, current_color) ==
    IF Len(codes) = 0 \/ codes = << <<>> >> THEN default_fg_color
    ELSE _parse_color_codes_from(codes, 0, current_color)

\* a cursor that keeps the number of the wire format
CursorIndex_OneBased(group) == int(group)

\* lines 117-118: the wire format counts rows and columns from 1
CursorIndex(group) == int(group) - 1

\* the loop of parse_ansi_frame_sparse, one action for each way through its body
char == At(frame_str, parse.i)

\* line 109
Parsing == parse.i < Len(frame_str)

\* line 113
IsEscape ==
    /\ char = ESC
    /\ parse.i + 1 < Len(frame_str)
    /\ At(frame_str, parse.i + 1) = "["

pos_match == ANSI_CURSOR_POS(frame_str, parse.i)
color_match == ANSI_ESCAPE(frame_str, parse.i)
other_match == ANSI_ANY(frame_str, parse.i)

\* lines 113-134 ended the iteration with continue
EscapeHandled ==
    IsEscape /\ (pos_match.matched \/ color_match.matched \/ other_match.matched)

\* lines 115-120
ParseCursorPos ==
    /\ Parsing
    /\ IsEscape
    /\ pos_match.matched
    /\ parse' = [parse EXCEPT !.cursor_row = CursorIndex(pos_match.group1),
                              !.cursor_col = CursorIndex(pos_match.group2),
                              !.i = pos_match.end]
    /\ UNCHANGED <<frame_str, canvas, schedVars, loopVars, runVars, rendererVars>>

\* lines 123-128
ParseColor ==
    /\ Parsing
    /\ IsEscape
    /\ ~pos_match.matched
    /\ color_match.matched
    /\ parse' = [parse EXCEPT
                    !.current_color =
                        _parse_color_codes(split(color_match.group1),
                                           parse.current_color),
                    !.i = color_match.end]
    /\ UNCHANGED <<frame_str, canvas, schedVars, loopVars, runVars, rendererVars>>

\* lines 131-134
ParseOther ==
    /\ Parsing
    /\ IsEscape
    /\ ~pos_match.matched
    /\ ~color_match.matched
    /\ other_match.matched
    /\ parse' = [parse EXCEPT !.i = other_match.end]
    /\ UNCHANGED <<frame_str, canvas, schedVars, loopVars, runVars, rendererVars>>

\* a newline that keeps the column
ParseNewline_KeepColumn ==
    /\ parse.i < Len(frame_str)
    /\ At(frame_str, parse.i) = LF
    /\ parse' = [parse EXCEPT !.cursor_row = @ + 1, !.i = @ + 1]
    /\ UNCHANGED <<frame_str, canvas, schedVars, loopVars, runVars, rendererVars>>

\* lines 137-141
ParseNewline ==
    /\ Parsing
    /\ ~EscapeHandled
    /\ char = LF
    /\ parse' = [parse EXCEPT !.cursor_row = @ + 1, !.cursor_col = 0,
                              !.i = @ + 1]
    /\ UNCHANGED <<frame_str, canvas, schedVars, loopVars, runVars, rendererVars>>

\* lines 144-147
ParseCarriageReturn ==
    /\ Parsing
    /\ ~EscapeHandled
    /\ char = CR
    /\ parse' = [parse EXCEPT !.cursor_col = 0, !.i = @ + 1]
    /\ UNCHANGED <<frame_str, canvas, schedVars, loopVars, runVars, rendererVars>>

\* a bounds test without its lower bounds
InCanvas_NoLowerBound(row, col) == row < canvas[2] /\ col < canvas[1]

\* line 150
InCanvas(row, col) ==
    /\ 0 <= row /\ row < canvas[2]
    /\ 0 <= col /\ col < canvas[1]

\* lines 150-154
ParseChar ==
    /\ Parsing
    /\ ~EscapeHandled
    /\ char \notin {LF, CR}
    /\ parse' = [parse EXCEPT
                    !.cells =
                        IF char # " " /\ InCanvas(parse.cursor_row,
                                                  parse.cursor_col)
                        THEN Append(@, <<parse.cursor_row, parse.cursor_col,
                                         char, parse.current_color>>)
                        ELSE @,
                    !.cursor_col = @ + 1,
                    !.i = @ + 1]
    /\ UNCHANGED <<frame_str, canvas, schedVars, loopVars, runVars, rendererVars>>

\* lines 272-277: a later cell of a position replaces an earlier one
parse_to_dict(cells) ==
    LET keys == {<<cells[j][1], cells[j][2]>> : j \in 1..Len(cells)}
        last(key) == CHOOSE j \in 1..Len(cells) :
                        /\ <<cells[j][1], cells[j][2]>> = key
                        /\ \A l \in (j + 1)..Len(cells) :
                              <<cells[l][1], cells[l][2]>> # key
    IN  [key \in keys |-> <<cells[last(key)][3], cells[last(key)][4]>>]

\* the decimal digits of n
RECURSIVE Decimal(_)
Decimal(n) ==
    IF n < 10 THEN <<DigitSeq[n + 1]>>
    ELSE Decimal(n \div 10) \o <<DigitSeq[(n % 10) + 1]>>

\* ESC [ r ; c H
CUP(r, c) == <<ESC, "[">> \o Decimal(r) \o <<";">> \o Decimal(c) \o <<"H">>

\* the pieces the parsed frames are made of: cursor positions on and off the
\* canvas, text, line ends, colour codes, other sequences (clear screen, hide
\* cursor), a sequence cut short and characters that complete it
Tokens ==
    {CUP(2, 3), CUP(0, 0),
     <<"A">>, <<" ">>, <<LF>>, <<CR>>,
     <<ESC, "[", "3", "1", "m">>, <<ESC, "[", "m">>,
     <<ESC, "[", "2", "J">>, <<ESC, "[", "?", "2", "5", "l">>,
     <<ESC, "[", "1", "2">>, <<";", "3", "H">>}

RECURSIVE Concat(_)
Concat(ts) == IF Len(ts) = 0 THEN <<>> ELSE Head(ts) \o Concat(Tail(ts))

\* the frame of two positioned letters
TwoLetters == CUP(2, 3) \o <<"A">> \o CUP(2, 4) \o <<"B">>

Frames == {Concat(ts) : ts \in SeqsUpTo(Tokens, MaxTokens)} \cup {TwoLetters}

\* <<canvas_width, canvas_height>>: a canvas of several cells and one of a
\* single cell
CanvasSizes == {<<CanvasWidth, CanvasHeight>>, <<1, 1>>}

InitParse ==
    /\ config = <<"Matrix">>
    /\ monitor_effects = <<>>
    /\ calls = <<>>
    /\ LoopIdle
    /\ fullscreen = TRUE
    /\ num_monitors = 0
    /\ randints = <<>>
    /\ raised = None
    /\ reported = FALSE
    /\ quit_calls = 0
    /\ frame_str \in Frames
    /\ canvas \in CanvasSizes
    /\ parse = ParseStart
    /\ RendererIdle

NextParse ==
    \/ ParseCursorPos
    \/ ParseColor
    \/ ParseOther
    \/ ParseNewline
    \/ ParseCarriageReturn
    \/ ParseChar

SpecParse == InitParse /\ [][NextParse]_vars

-----------------------------------------------------------------------------
(* renderer.py: one call of _parse_color_codes                              *)

\* the entries of the code lists: empty, reset, unrecognised numbers, the
\* selectors of the extended colors, a basic and a bright color, and 38
CodeStrings ==
    {<<>>, Decimal(0), Decimal(1), Decimal(2), Decimal(5), Decimal(31),
     Decimal(38), Decimal(97)}

\* 38;5;N for every N of the palette
XtermLists == {<<Decimal(38), Decimal(5), Decimal(n)>> : n \in 0..255}

\* 38;2;R;G;B, each of R, G, B a number or empty
TrueColorLists ==
    {<<Decimal(38), Decimal(2), r, g, b>> :
        r \in {Decimal(0), Decimal(128), <<>>},
        g \in {Decimal(64), <<>>},
        b \in {Decimal(255), Decimal(31)}}

\* line 12: the pattern takes any run of digits, so a palette number or a
\* component above 255 reaches the resolver
LargeNumberLists ==
    {<<Decimal(38), Decimal(5), Decimal(n)>> : n \in {256, 257, 300}}
    \cup {<<Decimal(38), Decimal(2), Decimal(300), Decimal(0), Decimal(0)>>,
          <<Decimal(38), Decimal(2), Decimal(0), Decimal(64), Decimal(256)>>}

CodeLists ==
    SeqsUpTo(CodeStrings, MaxCodes) \cup XtermLists \cup TrueColorLists
        \cup LargeNumberLists

\* the color in force before the call: the default, a basic color, a truecolor
StartColors == {default_fg_color, <<170, 0, 0>>, <<1, 2, 3>>}

\* line 126 (or any other call): current_color = _parse_color_codes(codes, current_color)
ResolveColor ==
    /\ sgr_result = NoResult
    /\ \E codes \in CodeLists :
          /\ sgr_codes' = codes
          /\ sgr_result' = _parse_color_codes(codes, sgr_current)
    /\ UNCHANGED <<sgr_current, schedVars, loopVars, runVars, parseVars,
                   deltaVars, cacheVars>>

InitColor ==
    /\ config = <<"Matrix">>
    /\ monitor_effects = <<>>
    /\ calls = <<>>
    /\ LoopIdle
    /\ fullscreen = TRUE
    /\ num_monitors = 0
    /\ randints = <<>>
    /\ raised = None
    /\ reported = FALSE
    /\ quit_calls = 0
    /\ ParseIdle
    /\ sgr_codes = <<>>
    /\ sgr_current \in StartColors
    /\ sgr_result = NoResult
    /\ DeltaIdle
    /\ CacheStart

NextColor == ResolveColor

SpecColor == InitColor /\ [][NextColor]_vars

-----------------------------------------------------------------------------
(* renderer.py: parse_ansi_frame_sparse as a function, the glyph cache and  *)
(* render_frame_delta                                                      *)

\* lines 109-154: one iteration of the loop, from the locals st
ParseStep(f, cv, st) ==
    LET c == At(f, st.i)
        escape == c = ESC /\ st.i + 1 < Len(f) /\ At(f, st.i + 1) = "["
        pm == ANSI_CURSOR_POS(f, st.i)
        cm == ANSI_ESCAPE(f, st.i)
        om == ANSI_ANY(f, st.i)
    IN  IF escape /\ pm.matched
        THEN [st EXCEPT !.cursor_row = CursorIndex(pm.group1),
                        !.cursor_col = CursorIndex(pm.group2),
                        !.i = pm.end]
        ELSE IF escape /\ cm.matched
        THEN [st EXCEPT !.current_color =
                            _parse_color_codes(split(cm.group1), st.current_color),
                        !.i = cm.end]
        ELSE IF escape /\ om.matched
        THEN [st EXCEPT !.i = om.end]
        ELSE IF c = LF
        THEN [st EXCEPT !.cursor_row = @ + 1, !.cursor_col = 0, !.i = @ + 1]
        ELSE IF c = CR
        THEN [st EXCEPT !.cursor_col = 0, !.i = @ + 1]
        ELSE [st EXCEPT
                !.cells =
                    IF /\ c # " "
                       /\ 0 <= st.cursor_row /\ st.cursor_row < cv[2]
                       /\ 0 <= st.cursor_col /\ st.cursor_col < cv[1]
                    THEN Append(@, <<st.cursor_row, st.cursor_col, c,
                                     st.current_color>>)
                    ELSE @,
                !.cursor_col = @ + 1,
                !.i = @ + 1]

\* lines 109-156: the loop
RECURSIVE ParseLoop(_, _, _)
ParseLoop(f, cv, st) ==
    IF st.i < Len(f) THEN ParseLoop(f, cv, ParseStep(f, cv, st)) ELSE st

\* lines 97-156
parse_ansi_frame_sparse(f, canvas_width, canvas_height) ==
    ParseLoop(f, <<canvas_width, canvas_height>>, ParseStart).cells

\* a cache that rasterizes on every request
get_char_surface_NoLookup(cache, counts, key) ==
    [cache |-> [k \in DOMAIN cache \cup {key} |->
                    IF k = key THEN <<key, counts[key] + 1>> ELSE cache[k]],
     rasterized |-> [counts EXCEPT ![key] = @ + 1],
     surface |-> <<key, counts[key] + 1>>]

\* lines 263-270: the surface font.render makes for a key is identified by
\* the key and the number of the rendering
get_char_surface(cache, counts, key) ==
    IF key \in DOMAIN cache
    THEN [cache |-> cache, rasterized |-> counts, surface |-> cache[key]]
    ELSE [cache |-> [k \in DOMAIN cache \cup {key} |->
                        IF k = key THEN <<key, counts[key] + 1>> ELSE cache[k]],
          rasterized |-> [counts EXCEPT ![key] = @ + 1],
          surface |-> <<key, counts[key] + 1>>]

\* get_char_surface for each key of a set, one after the other
RECURSIVE GetSurfaces(_, _, _)
GetSurfaces(cache, counts, keys) ==
    IF keys = {} THEN [cache |-> cache, rasterized |-> counts]
    ELSE LET key == CHOOSE k \in keys : TRUE
             r == get_char_surface(cache, counts, key)
         IN  GetSurfaces(r.cache, r.rasterized, keys \ {key})

\* the value dict.get returns for a missing key
NoCell == <<>>

\* a lookup that never finds the position
Get_AlwaysMissing(cells, pos) == NoCell

\* prev_cells.get(pos)
Get(cells, pos) == IF pos \in DOMAIN cells THEN cells[pos] ELSE NoCell

\* lines 312-313, 325-326, with offset_x = offset_y = 0
Pixel(pos) == <<0 + pos[2] * CharWidth, 0 + pos[1] * CharHeight>>

\* the positions line 321 finds different, without the positions that are new
Changed_OnlyReplaced(prev, curr) ==
    {pos \in DOMAIN curr : pos \in DOMAIN prev /\ prev[pos] # curr[pos]}

\* lines 317-321: the positions of curr whose cell differs from prev.get(pos)
Changed(prev, curr) == {pos \in DOMAIN curr : Get(prev, pos) # curr[pos]}

\* the cells a delta frame is made of: a blank, and a letter after its color
Red == <<ESC, "[", "3", "1", "m">>
Blue == <<ESC, "[", "3", "4", "m">>
CellTokens == {<<" ">>, Red \o <<"X">>, Blue \o <<"Y">>, Blue \o <<"X">>}

DeltaFrames == {Concat(ts) : ts \in SeqsUpTo(CellTokens, MaxCols)}

\* line 294: parse_to_dict(frame, canvas_width, canvas_height) for each of the
\* frames, on the canvas of CanvasWidth by CanvasHeight
ParsedFrames ==
    [f \in DeltaFrames |->
        parse_to_dict(parse_ansi_frame_sparse(f, CanvasWidth, CanvasHeight))]

\* one blit: the background tile covers what the cell showed, a glyph is
\* drawn over it
surface_blit(surf, b) ==
    IF b.source = "bg_tile"
    THEN [px \in DOMAIN surf \ {b.dest} |-> surf[px]]
    ELSE [px \in DOMAIN surf \cup {b.dest} |->
            IF px # b.dest THEN surf[px]
            ELSE IF px \in DOMAIN surf THEN Append(surf[px], b.source)
            ELSE <<b.source>>]

\* surface.blits(list, doreturn=False): every blit of the list, one after
\* the other
RECURSIVE blits(_, _)
blits(surf, list) ==
    IF list = EmptyBag THEN surf
    ELSE LET b == CHOOSE x \in BagToSet(list) : TRUE
         IN  blits(surface_blit(surf, b), list (-) SetToBag({b}))

\* lines 332-336 with the glyphs blitted before the clears
Batch_DrawsFirst(surf, clears_, draws) == blits(blits(surf, draws), clears_)

\* lines 332-336: the clear list is blitted, then the draw list
Batch(surf, clears_, draws) == blits(blits(surf, clears_), draws)

\* lines 279-338: the dict returned, the blits of the two lists (as bags: a
\* set is iterated in no particular order) and the cache afterwards
render_frame_delta(f, prev, cache, counts) ==
    LET curr == ParsedFrames[f]
        prev_keys == DOMAIN prev
        curr_keys == DOMAIN curr
        changed == Changed(prev, curr)
        after == GetSurfaces(cache, counts, {curr[pos] : pos \in changed})
    IN  [curr_cells |-> curr,
         clear_list |->
             SetToBag({[source |-> "bg_tile", dest |-> Pixel(pos)] :
                          pos \in prev_keys \ curr_keys})
             (+) SetToBag({[source |-> "bg_tile", dest |-> Pixel(pos)] :
                              pos \in {q \in changed : Get(prev, q) # NoCell}}),
         draw_list |->
             SetToBag({[source |-> after.cache[curr[pos]], dest |-> Pixel(pos)] :
                          pos \in changed}),
         cache |-> after.cache,
         rasterized |-> after.rasterized]

\* one call of render_frame_delta; the caller passes the dict the call
\* before returned
RenderFrameDelta ==
    \E f \in DeltaFrames :
        LET r == render_frame_delta(f, curr_cells, _char_cache, rasterized)
        IN  /\ delta_frame' = f
            /\ prev_cells' = curr_cells
            /\ curr_cells' = r.curr_cells
            /\ clear_list' = r.clear_list
            /\ draw_list' = r.draw_list
            /\ surface' = Batch(surface, r.clear_list, r.draw_list)
            /\ _char_cache' = r.cache
            /\ rasterized' = r.rasterized
            /\ UNCHANGED <<clears, cache_call, schedVars, loopVars, runVars,
                           parseVars, colorVars>>

\* the state in which no method of any other part has been called
OthersIdle ==
    /\ config = <<"Matrix">>
    /\ monitor_effects = <<>>
    /\ calls = <<>>
    /\ LoopIdle
    /\ fullscreen = TRUE
    /\ num_monitors = 0
    /\ randints = <<>>
    /\ raised = None
    /\ reported = FALSE
    /\ quit_calls = 0
    /\ ParseIdle
    /\ ColorIdle

InitDelta == OthersIdle /\ DeltaIdle /\ CacheStart

NextDelta == RenderFrameDelta

SpecDelta == InitDelta /\ [][NextDelta]_vars

\* a direct call of get_char_surface
GetCharSurface ==
    \E key \in GlyphKeys :
        LET r == get_char_surface(_char_cache, rasterized, key)
        IN  /\ _char_cache' = r.cache
            /\ rasterized' = r.rasterized
            /\ cache_call' = [op |-> "get_char_surface", key |-> key,
                              surface |-> r.surface]
            /\ UNCHANGED <<clears, schedVars, loopVars, runVars, parseVars,
                           colorVars, deltaVars>>

\* lines 374-376
ClearCache ==
    /\ clears < MaxClears
    /\ _char_cache' = EmptyDict
    /\ clears' = clears + 1
    /\ cache_call' = [op |-> "clear_cache"]
    /\ UNCHANGED <<rasterized, schedVars, loopVars, runVars, parseVars,
                   colorVars, deltaVars>>

InitCache == OthersIdle /\ DeltaIdle /\ CacheStart

NextCache == GetCharSurface \/ ClearCache

SpecCache == InitCache /\ [][NextCache]_vars

-----------------------------------------------------------------------------
(* Claims about the scheduler, under SpecSched.                            *)

Monitors == 1..Len(monitor_effects)

Range(f) == {f[x] : x \in DOMAIN f}

Session(k) == monitor_effects[k].current_iterator

HasCall(log, op) == \E j \in 1..Len(log) : log[j].op = op

\* the step is an update_and_render of monitor k that switched
Switched(k) ==
    /\ calls'[k] # calls[k] \/ monitor_effects'[k] # monitor_effects[k]
    /\ HasCall(calls'[k], "switch_to_next_effect")

C2_CompletionIsTerminal ==
    [][\A k \in Monitors :
         /\ \A j \in 1..Len(calls'[k]) :
              (calls'[k][j].op = "get_next_frame" /\ calls'[k][j].completed_before)
                => calls'[k][j].result = "None"
         /\ (monitor_effects[k].effect_completed /\ ~Switched(k)) =>
              /\ monitor_effects'[k].effect_completed
              /\ Session(k).remaining' = 0]_vars

\* C2 witness: a get_next_frame was made on a session that had already
\* reported completion, and returned None
C2_Witness ==
    \E k \in Monitors : \E j \in 1..Len(calls[k]) :
        /\ calls[k][j].op = "get_next_frame"
        /\ calls[k][j].completed_before
        /\ calls[k][j].result = "None"

\* C3 (as claimed): with more than one effect enabled a switch chooses an
\* enabled effect whose name differs from the one active before; with exactly
\* one it reuses that effect with a fresh session.
C3_SwitchPicksDifferentName ==
    [][\A k \in Monitors :
         Switched(k) =>
           LET em == monitor_effects[k]
               names == Range(em.enabled_effects)
           IN  /\ get_current_effect_name(em)' \in names
               /\ Cardinality(names) > 1
                    => get_current_effect_name(em)' # get_current_effect_name(em)
               /\ Cardinality(names) = 1
                    => /\ get_current_effect_name(em)' = get_current_effect_name(em)
                       /\ HasCall(calls'[k], "_create_effect")]_vars

\* the names of a configured list that the catalog knows
ValidNames(enabled) == Range(enabled) \cap AVAILABLE_EFFECTS

\* C4: the schedule is never empty or invalid: enabled_effects is non-empty,
\* holds only catalog names, current_effect_index is an index into it, and a
\* configured list without a valid name gives exactly the fallback triple.
C4_ScheduleValid ==
    \A k \in Monitors :
        LET em == monitor_effects[k]
        IN  /\ Len(em.enabled_effects) > 0
            /\ Range(em.enabled_effects) \subseteq AVAILABLE_EFFECTS
            /\ em.current_effect_index \in 0..(Len(em.enabled_effects) - 1)
            /\ ValidNames(config) = {}
                 => /\ Len(em.enabled_effects) = 3
                    /\ Range(em.enabled_effects) = {"Matrix", "Rain", "Decrypt"}
            /\ ValidNames(config) # {}
                 => Range(em.enabled_effects) = ValidNames(config)

\* C4 witness: a list without a valid name was configured and the monitor
\* has switched within the fallback triple
C4_Witness ==
    \E k \in Monitors :
        /\ config # <<>>
        /\ ValidNames(config) = {}
        /\ HasCall(calls[k], "switch_to_next_effect")
        /\ monitor_effects[k].current_effect_index > 0

\* C6 (as claimed): the render loop builds only the first session of a
\* monitor itself: no call of _create_effect is made inside update_and_render.
C6_RenderLoopNeverConstructs ==
    \A k \in Monitors : \A j \in 1..Len(calls[k]) :
        calls[k][j].op # "_create_effect"

\* the pending session of a manager, if its state has a slot for one
PendingSlot(em) ==
    IF "pending_iterator" \in DOMAIN em THEN em.pending_iterator ELSE NoIterator

\* C7 (as claimed): the session a switch activates is the pending one, built
\* beforehand and waiting in the manager's state.
C7_SwitchTakesPendingSession ==
    [][\A k \in Monitors :
         Switched(k) =>
           /\ PendingSlot(monitor_effects[k]) # NoIterator
           /\ Session(k)' = PendingSlot(monitor_effects[k])]_vars

-----------------------------------------------------------------------------
(* Claims about the run loop, under Spec.                                  *)

\* the step is the _handle_events call of a tick
HandledEvents == pc = "events" /\ pc' # "events"

ExitTypes == {"QUIT", "KEYDOWN", "MOUSEBUTTONDOWN"}

\* the position recorded at the first motion event, as event j of the list
\* sees it: the one recorded in an earlier tick, else that of the first
\* motion event before j in this list, else none
RecordedBefore(evs, initial, j) ==
    IF initial # NoPos THEN initial
    ELSE IF \E h \in 1..(j - 1) : evs[h].type = "MOUSEMOTION"
    THEN evs[CHOOSE h \in 1..(j - 1) :
               /\ evs[h].type = "MOUSEMOTION"
               /\ \A g \in 1..(h - 1) : evs[g].type # "MOUSEMOTION"].pos
    ELSE NoPos

\* event j of the list is a key press, a click, a quit request, or a motion
\* more than 10 px in x or in y away from the recorded position
Qualifies(evs, initial, j) ==
    \/ evs[j].type \in ExitTypes
    \/ /\ evs[j].type = "MOUSEMOTION"
       /\ RecordedBefore(evs, initial, j) # NoPos
       /\ LET ref == RecordedBefore(evs, initial, j)
          IN  \/ Abs(evs[j].pos[1] - ref[1]) > 10
              \/ Abs(evs[j].pos[2] - ref[2]) > 10

\* C8: the loop stops at the first tick whose events hold a qualifying event
\* (and at no other); the first motion event only records its position; and
\* once the loop has stopped no frame is pulled, rendered or presented.
C8_StopsOnQualifyingInput ==
    [][/\ HandledEvents =>
            /\ (~running' /\ pc' = "exit")
                 <=> \E j \in 1..Len(events') :
                         Qualifies(events', initial_mouse_pos, j)
            /\ running' \/ pc' = "exit"
            /\ (initial_mouse_pos = NoPos /\ running')
                 => initial_mouse_pos' = RecordedBefore(events', NoPos,
                                                        Len(events') + 1)
            /\ initial_mouse_pos # NoPos => initial_mouse_pos' = initial_mouse_pos
       /\ ~running =>
            UNCHANGED <<monitor_effects, calls, updated, presented>>]_vars

\* C8 witness: the loop was stopped by the second of two motion events of one
\* tick, the first of which recorded the position
C8_Witness ==
    /\ pc = "returned"
    /\ ~running
    /\ Len(events) = 2
    /\ events[1].type = "MOUSEMOTION"
    /\ events[2].type = "MOUSEMOTION"
    /\ initial_mouse_pos = events[1].pos
    /\ events[2].pos # events[1].pos

AllUpdated(n) == \A k \in Monitors : updated[k] = n

RenderCalls(k) ==
    Cardinality({j \in 1..Len(calls[k]) : calls[k][j].op = "render_frame"})

\* C9: in a tick that input does not end, update_and_render is called exactly
\* once for each binding, in order, then the display is flipped exactly once,
\* and only then does the next tick begin.
C9_OneUpdateEachThenOneFlip ==
    /\ presented <= 1
    /\ \A k \in Monitors : updated[k] <= 1 /\ RenderCalls(k) <= updated[k]
    /\ presented = 1 => AllUpdated(1)
    /\ pc = "render" =>
         /\ presented = 0
         /\ \A k \in Monitors : updated[k] = (IF k < cur THEN 1 ELSE 0)
    /\ pc = "flip" => presented = 0 /\ AllUpdated(1)
    /\ pc = "tick" => presented = 1
    /\ pc = "events" => (presented = 1 /\ AllUpdated(1))
                         \/ (presented = 0 /\ AllUpdated(0))
    /\ pc \in {"fill", "exit", "returned"} => presented = 0 /\ AllUpdated(0)

\* C9 witness: a tick over two monitors has ended with both updated once and
\* one flip
C9_Witness ==
    /\ pc = "tick"
    /\ Len(monitor_effects) = 2
    /\ AllUpdated(1)
    /\ presented = 1
    /\ RenderCalls(2) = 1

-----------------------------------------------------------------------------
(* Claims about the construction of the bindings, under SpecRun.           *)

\* C5 (as claimed): when run has got past the construction of the bindings
\* of two monitors, with more than one name enabled and distinct start
\* indices for the two, both schedulers have been constructed and they start
\* on different effects.
C5_DistinctStartsDiffer ==
    (/\ pc \notin {"start", "create"}
     /\ num_monitors = 2
     /\ Cardinality(ValidNames(config)) > 1
     /\ StartIndex(config, 0, 2, randints[1]) # StartIndex(config, 1, 2, randints[2]))
      => /\ raised = None
         /\ Len(monitor_effects) = 2
         /\ get_current_effect_name(monitor_effects[1])
              # get_current_effect_name(monitor_effects[2])

-----------------------------------------------------------------------------
(* Claims about the parser, under SpecParse.                               *)

\* the rows and columns the cursor sequences of the claims name
WireNumbers == 0..12

Printable == {"A", "B"}

\* C10: a sequence ESC[r;cH at the parser's position sets the cursor to row
\* r-1, column c-1, moves past the sequence and leaves the cells and the color
\* alone; a printable character that directly follows the sequence is emitted
\* at (r-1, c-1) with the current color when that position is on the canvas;
\* and parsing ESC[2;3HA ESC[2;4HB with no color code, for a canvas that holds
\* both positions, yields exactly the cells
\* {(1,2): ('A', white), (1,3): ('B', white)}.
C10_CursorPositionIsAbsolute ==
    [][/\ \A r \in WireNumbers, c \in WireNumbers :
            LET seq == CUP(r, c)
                L == Len(seq)
            IN  /\ (/\ parse.i + L <= Len(frame_str)
                    /\ Slice(frame_str, parse.i, parse.i + L) = seq)
                   => parse' = [parse EXCEPT !.cursor_row = r - 1,
                                             !.cursor_col = c - 1,
                                             !.i = @ + L]
                /\ (/\ parse.i >= L
                    /\ Slice(frame_str, parse.i - L, parse.i) = seq
                    /\ At(frame_str, parse.i) \in Printable
                    /\ InCanvas(r - 1, c - 1))
                   => parse'.cells =
                          Append(parse.cells,
                                 <<r - 1, c - 1, At(frame_str, parse.i),
                                   parse.current_color>>)
       /\ (/\ frame_str = TwoLetters
           /\ InCanvas(1, 2) /\ InCanvas(1, 3)
           /\ parse'.i = Len(frame_str))
          => parse_to_dict(parse'.cells) =
                 (<<1, 2>> :> <<"A", <<255, 255, 255>> >>)
                 @@ (<<1, 3>> :> <<"B", <<255, 255, 255>> >>)
      ]_vars

\* C10 witness: the frame of the two positioned letters was parsed to its end
\* and gave two cells.
C10_Witness ==
    /\ frame_str = TwoLetters
    /\ parse.i = Len(frame_str)
    /\ Len(parse.cells) = 2


\* the character at the parser's position is an ordinary one: not the escape
\* character, a newline or a carriage return
OrdinaryChar == Parsing /\ At(frame_str, parse.i) \notin {ESC, LF, CR}

\* an ordinary character is about to be written while the cursor is off the
\* canvas
OffCanvasWrite ==
    /\ OrdinaryChar
    /\ \/ parse.cursor_row < 0 \/ parse.cursor_row >= canvas[2]
       \/ parse.cursor_col < 0 \/ parse.cursor_col >= canvas[1]

\* C11: every emitted cell lies on the canvas (0 <= row < canvas_height,
\* 0 <= col < canvas_width) and holds a character that is not a space; an
\* ordinary character written while the cursor is off the canvas (negative
\* positions included) emits no cell and the parse goes on with the next
\* character: such a write never stops the parse.
C11_CellsOnCanvasAndNotBlank ==
    /\ [][/\ \A j \in 1..Len(parse'.cells) :
                LET cell == parse'.cells[j]
                IN  /\ 0 <= cell[1] /\ cell[1] < canvas[2]
                    /\ 0 <= cell[2] /\ cell[2] < canvas[1]
                    /\ cell[3] # " "
          /\ OffCanvasWrite
             => /\ parse'.cells = parse.cells
                /\ parse'.i = parse.i + 1]_vars
    /\ [](OffCanvasWrite => ENABLED NextParse)

\* C11 witness: the letter written at (-1, -1) after ESC[0;0H was dropped,
\* and the parse went on to the end of the frame
C11_Witness ==
    /\ frame_str = CUP(0, 0) \o <<"A", LF>>
    /\ canvas = <<CanvasWidth, CanvasHeight>>
    /\ parse.i = Len(frame_str)
    /\ parse.cells = <<>>
    /\ parse.cursor_row = 0

\* C12: the cursor starts at (0,0); every ordinary character, emitted or not,
\* advances cursor_col by exactly 1 and leaves cursor_row alone; a newline
\* adds 1 to cursor_row and sets cursor_col to 0; a carriage return sets
\* cursor_col to 0 and leaves cursor_row alone; neither emits a cell.
C12_CursorTracking ==
    [][/\ parse.i = 0 => parse.cursor_row = 0 /\ parse.cursor_col = 0
       /\ OrdinaryChar =>
            /\ parse'.cursor_col = parse.cursor_col + 1
            /\ parse'.cursor_row = parse.cursor_row
            /\ parse'.i = parse.i + 1
       /\ (Parsing /\ At(frame_str, parse.i) = LF) =>
            /\ parse'.cursor_row = parse.cursor_row + 1
            /\ parse'.cursor_col = 0
            /\ parse'.cells = parse.cells
            /\ parse'.i = parse.i + 1
       /\ (Parsing /\ At(frame_str, parse.i) = CR) =>
            /\ parse'.cursor_row = parse.cursor_row
            /\ parse'.cursor_col = 0
            /\ parse'.cells = parse.cells
            /\ parse'.i = parse.i + 1]_vars

\* C12 witness: a letter, a space and a newline have been parsed: the letter
\* is the only cell and the cursor is at the start of the second row
C12_Witness ==
    /\ frame_str = <<"A", " ", LF>>
    /\ parse.i = Len(frame_str)
    /\ Len(parse.cells) = 1
    /\ parse.cursor_row = 1
    /\ parse.cursor_col = 0


\* the characters between ESC [ and the final letter of a control sequence
ParameterChars == DigitChars \cup {";", "?"}

\* the index of the final character of the control sequence that starts at i
FinalIndex(f, i) == RunEnd(f, i + 2, ParameterChars)

\* a sequence ESC [ ... <letter> starts at i, and its letter is neither that
\* of a cursor position (H) nor that of a color code (m)
OtherSequenceAt(f, i) ==
    /\ At(f, i) = ESC
    /\ At(f, i + 1) = "["
    /\ At(f, FinalIndex(f, i)) \in Letters \ {"H", "m"}

\* C13 (as claimed): a sequence ESC [ ... <letter> that is neither a cursor
\* position nor a color code is skipped whole: the parser moves past its
\* letter, no cell is emitted, and the cursor and the color stay as they were.
C13_OtherSequenceSkipped ==
    [][(Parsing /\ OtherSequenceAt(frame_str, parse.i))
         => parse' = [parse EXCEPT !.i = FinalIndex(frame_str, parse.i) + 1]]_vars

\* an escape sequence that the end of the frame cuts short starts at i:
\* ESC [ and parameters, but no final letter
TruncatedAt(f, i) ==
    /\ At(f, i) = ESC
    /\ At(f, i + 1) = "["
    /\ FinalIndex(f, i) = Len(f)

\* C14 (as claimed): a frame that ends inside an escape sequence is parsed to
\* its end, and the truncated sequence is skipped: from its first character
\* on no cell is emitted and the color keeps its value.
C14_TruncatedSequenceSkipped ==
    /\ [][(\E j \in 0..parse.i : TruncatedAt(frame_str, j))
            => /\ parse'.cells = parse.cells
               /\ parse'.current_color = parse.current_color]_vars
    /\ [](Parsing => ENABLED NextParse)


-----------------------------------------------------------------------------
(* Claims about the color resolver, under SpecColor.                       *)

Resolved == sgr_result # NoResult

White == <<255, 255, 255>>

\* the basic and the bright table, entries 0 to 7
BasicTable ==
    << <<0, 0, 0>>, <<170, 0, 0>>, <<0, 170, 0>>, <<170, 85, 0>>, <<0, 0, 170>>,
       <<170, 0, 170>>, <<0, 170, 170>>, <<170, 170, 170>> >>

BrightTable ==
    << <<85, 85, 85>>, <<255, 85, 85>>, <<85, 255, 85>>, <<255, 255, 85>>,
       <<85, 85, 255>>, <<255, 85, 255>>, <<85, 255, 255>>, <<255, 255, 255>> >>

\* the palette as documented
Palette(n) ==
    IF n < 8 THEN BasicTable[n + 1]
    ELSE IF n < 16 THEN BrightTable[n - 8 + 1]
    ELSE IF n < 232
    THEN <<51 * (((n - 16) \div 36) % 6), 51 * (((n - 16) \div 6) % 6),
           51 * ((n - 16) % 6)>>
    ELSE <<(n - 232) * 10 + 8, (n - 232) * 10 + 8, (n - 232) * 10 + 8>>

\* C15: for every N in 0..255 and every current color, 38;5;N resolves to the
\* basic table entry N (N < 8), the bright table entry N-8 (8 <= N < 16), the
\* cube color 51*(r, g, b) (16 <= N < 232) or the gray (N-232)*10+8 (N >= 232).
C15_XtermPalette ==
    \A n \in 0..255 :
        (Resolved /\ sgr_codes = <<Decimal(38), Decimal(5), Decimal(n)>>)
          => sgr_result = Palette(n)

\* C15 witness: 38;5;231 was resolved, from a current color that is not
\* white, to the last color of the cube
C15_Witness ==
    /\ sgr_codes = <<Decimal(38), Decimal(5), Decimal(231)>>
    /\ sgr_current = <<1, 2, 3>>
    /\ sgr_result = <<255, 255, 255>>

\* the numbers the entries of the code lists write
WrittenNumbers == 0..300

\* the number an entry of a code list writes, or -1 if it writes none
CodeValue(c) ==
    IF \E n \in WrittenNumbers : Decimal(n) = c
    THEN CHOOSE n \in WrittenNumbers : Decimal(n) = c
    ELSE -1

\* the list is one extended-color specification 38;2;R;G;B, complete
WellFormedTrueColor(codes) ==
    /\ Len(codes) = 5
    /\ codes[1] = Decimal(38) /\ codes[2] = Decimal(2)
    /\ \A j \in 3..5 : CodeValue(codes[j]) >= 0

\* the list is one extended-color specification that is cut short or holds
\* a field that is not a number
MalformedExtended(codes) ==
    /\ Len(codes) >= 1
    /\ codes[1] = Decimal(38)
    /\ \/ Len(codes) = 1
       \/ Len(codes) = 2 /\ codes[2] \in {Decimal(2), Decimal(5), <<>>}
       \/ Len(codes) \in 3..4 /\ codes[2] = Decimal(2)
       \/ /\ Len(codes) = 5 /\ codes[2] = Decimal(2)
          /\ \E j \in 3..5 : CodeValue(codes[j]) < 0
       \/ /\ Len(codes) = 3 /\ codes[2] = Decimal(5)
          /\ CodeValue(codes[3]) < 0

\* C16 (as claimed): a well-formed 38;2;R;G;B resolves to (R,G,B); a
\* malformed extended-color specification is ignored as a whole: the resolver
\* returns the current color, and none of its leftover parameters acts as a
\* color code of its own.
C16_TrueColorOrIgnored ==
    Resolved =>
      /\ WellFormedTrueColor(sgr_codes)
           => sgr_result = <<CodeValue(sgr_codes[3]), CodeValue(sgr_codes[4]),
                             CodeValue(sgr_codes[5])>>
      /\ MalformedExtended(sgr_codes) => sgr_result = sgr_current

\* the rule for simple codes, left to right
RECURSIVE SimpleRule(_, _)
SimpleRule(codes, current) ==
    IF Len(codes) = 0 THEN current
    ELSE LET v == CodeValue(Head(codes))
         IN  IF v = 0 THEN White
             ELSE IF 30 <= v /\ v <= 37 THEN BasicTable[v - 30 + 1]
             ELSE IF 90 <= v /\ v <= 97 THEN BrightTable[v - 90 + 1]
             ELSE SimpleRule(Tail(codes), current)

\* C17: for a list of simple codes (none of them 38) the list is examined
\* left to right, unrecognised numbers and entries that are no numbers are
\* skipped, and the first recognised code decides: 0 gives white, 30..37 the
\* basic table entry code-30, 90..97 the bright table entry code-90; if none
\* is recognised the current color is returned; and an empty parameter list
\* (ESC[m) gives white.
C17_SimpleCodes ==
    (Resolved /\ \A j \in 1..Len(sgr_codes) : sgr_codes[j] # Decimal(38))
      => sgr_result = IF sgr_codes = <<>> \/ sgr_codes = << <<>> >>
                      THEN White
                      ELSE SimpleRule(sgr_codes, sgr_current)

\* C17 witness: in 1;31;97 the unrecognised 1 was skipped and 31 decided,
\* so the result is the basic red and not the bright white
C17_Witness ==
    /\ sgr_codes = <<Decimal(1), Decimal(31), Decimal(97)>>
    /\ sgr_current = <<1, 2, 3>>
    /\ sgr_result = <<170, 0, 0>>


-----------------------------------------------------------------------------
(* Claims about render_frame_delta, under SpecDelta.                       *)

\* where a cell is on the surface
PixelOf(pos) == <<pos[2] * CharWidth, pos[1] * CharHeight>>

\* the positions that are new in curr or hold another cell than in prev
NewOrChanged(prev, curr) ==
    {pos \in DOMAIN curr : pos \notin DOMAIN prev \/ prev[pos] # curr[pos]}

\* the positions that have gone, and the changed ones that held a cell
GoneOrReplaced(prev, curr) ==
    (DOMAIN prev \ DOMAIN curr)
    \cup {pos \in DOMAIN curr \cap DOMAIN prev : prev[pos] # curr[pos]}

\* the blits of a list are one for each position of the set, and no other
OneBlitEach(list, positions) ==
    /\ BagCardinality(list) = Cardinality(positions)
    /\ \A pos \in positions :
         \E blit \in BagToSet(list) :
            blit.dest = PixelOf(pos) /\ CopiesIn(blit, list) = 1

\* C18: a call of render_frame_delta with prev and a frame that parses to
\* curr draws exactly the positions of curr whose cell differs from
\* prev.get(pos), each once and with the glyph of the new cell, clears
\* exactly the positions of prev that curr lacks and the changed positions
\* that held a cell, each once, and so issues nothing for a position whose
\* cell is the same in both.
C18_DiffOperationSets ==
    /\ OneBlitEach(draw_list, NewOrChanged(prev_cells, curr_cells))
    /\ OneBlitEach(clear_list, GoneOrReplaced(prev_cells, curr_cells))
    /\ \A blit \in BagToSet(draw_list) :
         \E pos \in DOMAIN curr_cells :
            blit.dest = PixelOf(pos) /\ blit.source[1] = curr_cells[pos]
    /\ \A blit \in BagToSet(clear_list) : blit.source = "bg_tile"

\* C18 witness: prev = {(0,0): X red}, curr = {(0,0): X red, (0,1): Y blue}
\* gave no clear and exactly one draw, at (0,1)
C18_Witness ==
    /\ prev_cells = (<<0, 0>> :> <<"X", <<170, 0, 0>> >>)
    /\ curr_cells = (<<0, 0>> :> <<"X", <<170, 0, 0>> >>)
                    @@ (<<0, 1>> :> <<"Y", <<0, 0, 170>> >>)
    /\ clear_list = EmptyBag
    /\ BagCardinality(draw_list) = 1
    /\ \E blit \in BagToSet(draw_list) : blit.dest = PixelOf(<<0, 1>>)

\* the frame parses to the map m
ParsesTo(f, m) ==
    parse_to_dict(parse_ansi_frame_sparse(f, CanvasWidth, CanvasHeight)) = m

\* C19: when the frame parses to the map that was passed as prev, the call
\* issues no clear and no draw and returns a map equal to it; so rendering
\* the same frame twice in a row issues nothing the second time.
C19_DiffIdempotent ==
    /\ [](ParsesTo(delta_frame, prev_cells)
            => /\ clear_list = EmptyBag
               /\ draw_list = EmptyBag
               /\ curr_cells = prev_cells)
    /\ [][delta_frame' = delta_frame
            => /\ clear_list' = EmptyBag
               /\ draw_list' = EmptyBag
               /\ curr_cells' = curr_cells]_vars

\* C19 witness: a frame of two cells was rendered against the map it parses
\* to, and nothing was cleared or drawn
C19_Witness ==
    /\ Cardinality(DOMAIN prev_cells) = 2
    /\ ParsesTo(delta_frame, prev_cells)
    /\ curr_cells = prev_cells
    /\ clear_list = EmptyBag
    /\ draw_list = EmptyBag

-----------------------------------------------------------------------------
(* Claims about the glyph cache, under SpecCache.                          *)

\* C20: a request for a key that is cached rasterizes nothing, leaves the
\* cache as it is and returns the cached surface; a request for a key that is
\* not cached (the first since the last clear) rasterizes that key once and
\* adds just that key, with the surface returned; so the set of cached keys
\* never shrinks under get_char_surface; clear_cache empties the cache, and
\* it is the only operation that removes an entry.
C20_GlyphCacheMemoizes ==
    [][/\ cache_call'.op = "get_char_surface" =>
            LET key == cache_call'.key
            IN  /\ key \in DOMAIN _char_cache =>
                     /\ rasterized' = rasterized
                     /\ _char_cache' = _char_cache
                     /\ cache_call'.surface = _char_cache[key]
                /\ key \notin DOMAIN _char_cache =>
                     /\ rasterized' = [rasterized EXCEPT ![key] = @ + 1]
                     /\ DOMAIN _char_cache' = DOMAIN _char_cache \cup {key}
                     /\ \A k \in DOMAIN _char_cache :
                           _char_cache'[k] = _char_cache[k]
                     /\ cache_call'.surface = _char_cache'[key]
       /\ cache_call'.op = "clear_cache" =>
            /\ DOMAIN _char_cache' = {}
            /\ rasterized' = rasterized
       /\ (\E k \in DOMAIN _char_cache : k \notin DOMAIN _char_cache')
            => cache_call'.op = "clear_cache"]_vars

\* C20 witness: a key was requested, the cache was cleared, and the key was
\* requested again and rasterized a second time, while another key is cached
C20_Witness ==
    /\ clears = 1
    /\ cache_call.op = "get_char_surface"
    /\ rasterized[cache_call.key] = 2
    /\ _char_cache[cache_call.key] = cache_call.surface
    /\ Cardinality(DOMAIN _char_cache) = 2

-----------------------------------------------------------------------------
(* Claims about the failure behaviour of run, under SpecFail.              *)

\* run is over: it returned, or an exception left it
Left == pc \in {"returned", "raised"}

\* the exceptions that are errors (subclasses of Exception)
ErrorKinds == {"pygame.error", "TypeError"}

\* C21: an exception raised during initialization or inside the render loop
\* ends the loop at once: from the raise on no event is handled and nothing is
\* filled, updated, rendered or flipped, and run goes on only through its
\* except and finally clauses; an error is reported before run is left, and
\* the exception leaves run unchanged (run never returns normally after a
\* raise); and on every way out, by qualifying input or by exception,
\* pygame.quit has been called exactly once, and not before.
C21_FailureEndsRunAndReleasesDisplay ==
    /\ [][/\ raised' # None =>
               /\ UNCHANGED <<monitor_effects, running, initial_mouse_pos,
                              events, cur, updated, presented>>
               /\ pc' \in {"except", "finally", "raised"}
          /\ raised # None =>
               /\ raised' = raised
               /\ <<pc, pc'>> \in {<<"except", "finally">>,
                                   <<"finally", "raised">>}
          /\ reported' # reported =>
               pc = "except" /\ raised \in ErrorKinds]_vars
    /\ [](/\ pc = "raised" => raised # None
          /\ pc = "returned" => raised = None /\ ~running /\ ~reported
          /\ (pc \in {"finally", "raised"} /\ raised \in ErrorKinds) => reported
          /\ quit_calls = (IF Left THEN 1 ELSE 0))
    /\ []((pc \in {"exit", "except", "finally"}) => ENABLED NextFail)

\* C21 witness: update_and_render of the second of two monitors raised in
\* the loop; the error was reported, the display released once, and run was
\* left by the exception
C21_Witness ==
    /\ pc = "raised"
    /\ raised = "pygame.error"
    /\ reported
    /\ quit_calls = 1
    /\ Len(monitor_effects) = 2
    /\ updated = <<1, 0>>
    /\ presented = 0

-----------------------------------------------------------------------------
(* Claims about what delta rendering leaves on the surface, under          *)
(* SpecDelta.                                                              *)

\* what a cell shows when more than one glyph was drawn over its background
Overdrawn == <<"overdrawn">>

\* The cells a surface shows: a position shows nothing while it holds the
\* background alone, and the (char, color) of the glyph if one glyph was
\* drawn there since.
Displayed(surf) ==
    LET at(pos) == surf[PixelOf(pos)]
        shown == {pos \in (0..(CanvasHeight - 1)) \X (0..(CanvasWidth - 1)) :
                     PixelOf(pos) \in DOMAIN surf}
    IN  [pos \in shown |->
            IF Len(at(pos)) = 1 THEN at(pos)[1][1] ELSE Overdrawn]

\* C22: delta rendering keeps the display equal to the latest frame: a call
\* of render_frame_delta on a surface that shows exactly the cells of the
\* prev it is given leaves the surface showing exactly the cells of the map it
\* returns; hence, from a blank surface and an empty prev, with every
\* returned map fed back as the next prev, the surface shows the cells of the
\* latest frame after every frame.
C22_DeltaKeepsDisplay ==
    /\ [][Displayed(surface) = prev_cells'
            => Displayed(surface') = curr_cells']_vars
    /\ [](/\ Displayed(surface) = curr_cells
          /\ delta_frame # <<>> => ParsesTo(delta_frame, Displayed(surface)))

\* C22 witness: the surface showed a red X and a blue Y; the frame holds a
\* blue X alone, so one cell was replaced and one cleared, and the surface
\* shows the blue X and nothing else
C22_Witness ==
    /\ prev_cells = (<<0, 0>> :> <<"X", <<170, 0, 0>> >>)
                        @@ (<<0, 1>> :> <<"Y", <<0, 0, 170>> >>)
    /\ curr_cells = (<<0, 0>> :> <<"X", <<0, 0, 170>> >>)
    /\ BagCardinality(clear_list) = 2
    /\ BagCardinality(draw_list) = 1
    /\ Displayed(surface) = curr_cells

-----------------------------------------------------------------------------
(* Claims about the range of the resolved color, under SpecColor.          *)

\* an RGB triple: three components, each in 0..255
ValidColor(c) ==
    /\ Len(c) = 3
    /\ \A j \in 1..3 : c[j] \in 0..255

\* C23 (as claimed): for every list of decimal parameters the SGR pattern
\* accepts and every valid current color, the resolver returns a valid RGB
\* triple: each of its three components lies in 0..255, also for 38;5;N with
\* any N and for 38;2;R;G;B with any R, G, B.
C23_ResultIsValidColor ==
    (Resolved /\ ValidColor(sgr_current)) => ValidColor(sgr_result)

====
